---- MODULE Spec2Model ----
(***************************************************************************)
(* PSBT construction of bp-std (psbt/src/constructor.rs): the default      *)
(* method PsbtConstructor::construct_psbt, run against a small wallet.     *)
(* The two argument iterators (coins, beneficiaries) are consumed by the   *)
(* for loops one item per step; the items consumed so far are kept in      *)
(* coins and beneficiaries.                                                *)
(***************************************************************************)
EXTENDS Integers, Sequences, FiniteSets

(* ---------------------------- bounds ----------------------------------- *)

\* most coins and most beneficiaries a call takes from its iterators
MaxCoins == 2
MaxBens == 2
\* number of construct_psbt calls in a behaviour
MaxCalls == 2
\* largest fee a caller asks for
MaxFee == 1
\* the largest value a Sats holds (scaled down), and the dust limit of the
\* wallet's descriptor class (scaled down)
SatsCeiling == 6

\* longest text handed to Beneficiary::from_str
MaxText == 5
DustLimit == 1

(* --------------------------- a small wallet ---------------------------- *)

Keychains == {0, 1}

Outpoint(t, v) == [txid |-> t, vout |-> v]

\* the outpoints callers pass: two spendable coins, one whose previous
\* transaction is known but which is no UTXO of the wallet, and one recorded
\* as UTXO whose previous transaction the wallet does not have
Outpoints == {Outpoint(1, 0), Outpoint(1, 1), Outpoint(2, 0), Outpoint(3, 0)}

WalletTxs == {1, 2}

WalletUtxos ==
    { [outpoint |-> Outpoint(1, 0), value |-> 3, terminal |-> [keychain |-> 0, index |-> 0]],
      [outpoint |-> Outpoint(1, 1), value |-> 2, terminal |-> [keychain |-> 1, index |-> 0]],
      [outpoint |-> Outpoint(3, 0), value |-> 1, terminal |-> [keychain |-> 0, index |-> 1]] }

None == [kind |-> "None"]
Some(v) == [kind |-> "Some", value |-> v]

\* fn network(&self) -> Network
network == "bitcoin"

\* fn prev_tx(&self, txid) -> Option<UnsignedTx>
prev_tx(txid) == IF txid \in WalletTxs THEN Some(txid) ELSE None

\* fn utxo(&self, outpoint) -> Option<(Utxo, ScriptPubkey)>
utxo(outpoint) ==
    IF \E u \in WalletUtxos : u.outpoint = outpoint
    THEN Some(CHOOSE u \in WalletUtxos : u.outpoint = outpoint)
    ELSE None

\* self.descriptor().class().dust_limit()
dust_limit == DustLimit

(* --------------------------- call inputs ------------------------------- *)

Addresses ==
    { [network |-> "bitcoin", payload |-> "a"],
      [network |-> "testnet", payload |-> "b"],
      [network |-> "regtest", payload |-> "c"] }

FixedAmounts == {0, 2, 4}

Fixed(sats) == [tag |-> "Fixed", sats |-> sats]
Max == [tag |-> "Max", sats |-> 0]

Payments == {Fixed(s) : s \in FixedAmounts} \cup {Max}

Beneficiaries == [address : Addresses, amount : Payments]

TxParamsSet == [fee : 0..MaxFee, change_shift : BOOLEAN, change_keychain : Keychains]

(* -------------------------- Payment, Sats ------------------------------ *)

\* Payment::sats
sats(payment) == IF payment.tag = "Fixed" THEN Some(payment.sats) ELSE None

\* Payment::unwrap_or
unwrap_or(payment, default) ==
    IF sats(payment).kind = "Some" THEN sats(payment).value ELSE default

\* Payment::is_max
is_max(payment) == payment = Max

\* Sats::checked_sub
checked_sub(a, b) == IF a >= b THEN Some(a - b) ELSE None

\* Sats::checked_add_assign: the new value of self and the returned option;
\* self is left as it was when the sum does not fit
checked_add_assign(self, other) ==
    IF self + other <= SatsCeiling
    THEN [self |-> self + other, ret |-> Some(self + other)]
    ELSE [self |-> self, ret |-> None]

(* ------------------------------ Psbt ----------------------------------- *)

\* Psbt::create
create == [inputs |-> <<>>, outputs |-> <<>>]

\* Psbt::append_input_expect
append_input_expect(psbt, u) ==
    [psbt EXCEPT !.inputs =
        Append(@, [previous_outpoint |-> u.outpoint, value |-> u.value, terminal |-> u.terminal])]

\* Psbt::append_output_expect; the output's index() is its position, from 0
append_output_expect(psbt, spk, amount) ==
    [psbt EXCEPT !.outputs = Append(@, [script_pubkey |-> spk, amount |-> amount])]

\* Psbt::append_change_expect: an output paying to the descriptor at the terminal
append_change_expect(psbt, terminal, amount) ==
    [psbt EXCEPT !.outputs =
        Append(@, [script_pubkey |-> [derived |-> terminal], amount |-> amount])]

RECURSIVE SumValues(_)
SumValues(s) == IF s = <<>> THEN 0 ELSE s[1].value + SumValues(Tail(s))

\* Psbt::input_sum
input_sum(psbt) == SumValues(psbt.inputs)

\* Address::script_pubkey
script_pubkey(address) == [addr |-> address.payload]

(* ------------------------- ConstructionError --------------------------- *)

UnknownInput(coin) == [kind |-> "UnknownInput", outpoint |-> coin]
NoInputs == [kind |-> "NoInputs"]
Overflow(s) == [kind |-> "Overflow", sats |-> s]
OutputExceedsInputs(iv, ov) ==
    [kind |-> "OutputExceedsInputs", input_value |-> iv, output_value |-> ov]
NoFundsForFee(iv, ov, fee) ==
    [kind |-> "NoFundsForFee", input_value |-> iv, output_value |-> ov, fee |-> fee]
NetworkMismatch(address) == [kind |-> "NetworkMismatch", address |-> address]

Err(e) == [kind |-> "Err", error |-> e]
Ok(v) == [kind |-> "Ok", value |-> v]

VARIABLES
    pc,               \* position in construct_psbt: idle, inputs, outputs, change, finalize, done
    params,           \* the TxParams of the call
    coins,            \* the outpoints taken from the coins iterator so far
    coins_end,        \* the coins iterator has returned its last item
    beneficiaries,    \* the beneficiaries taken from their iterator so far
    beneficiaries_end, \* the beneficiaries iterator has returned its last item
    psbt,             \* the draft under construction
    input_value, output_value, max, remaining_value, change,   \* locals
    result,           \* what the call returned (None while it runs)
    next_index,       \* the wallet: next unused derivation index per keychain
    calls,            \* number of construct_psbt calls started
    ndi_calls,        \* next_derivation_index calls made by the current call
    ndi_args,         \* and the arguments and result of the last one
    index_before,     \* next_index when the current call started
    hook_calls,       \* after_construct_psbt calls made by the current call
    hook_arg,         \* and the (psbt, meta) it was handed
    total_ndi,        \* next_derivation_index calls over all calls
    total_change,     \* results with meta.change = Some over all calls
    text,             \* the text handed to Beneficiary::from_str
    parsed            \* and what it returned (None before the call)

construction == <<pc, params, coins, coins_end, beneficiaries, beneficiaries_end, psbt,
                  input_value, output_value, max, remaining_value, change, result,
                  next_index, calls, ndi_calls, ndi_args, index_before, hook_calls,
                  hook_arg, total_ndi, total_change>>
parsing == <<text, parsed>>

vars == <<construction, parsing>>

locals == <<input_value, output_value, max, remaining_value, change>>
wallet == <<next_index, ndi_calls, ndi_args, total_ndi>>
hook == <<hook_calls, hook_arg>>

NoParams == [fee |-> 0, change_shift |-> FALSE, change_keychain |-> 0]

\* no construct_psbt call made yet
Idle ==
    /\ pc = "idle"
    /\ params = NoParams
    /\ coins = <<>>
    /\ coins_end = FALSE
    /\ beneficiaries = <<>>
    /\ beneficiaries_end = FALSE
    /\ psbt = create
    /\ input_value = 0
    /\ output_value = 0
    /\ max = <<>>
    /\ remaining_value = 0
    /\ change = None
    /\ result = None
    /\ next_index = [k \in Keychains |-> 0]
    /\ calls = 0
    /\ ndi_calls = 0
    /\ ndi_args = None
    /\ index_before = [k \in Keychains |-> 0]
    /\ hook_calls = 0
    /\ hook_arg = None
    /\ total_ndi = 0
    /\ total_change = 0

Init ==
    /\ Idle
    /\ text = <<>>
    /\ parsed = None

\* fn next_derivation_index(&mut self, keychain, shift) -> NormalIndex: the
\* index handed out, and the wallet's counters after the call
next_derivation_index(idx, keychain, shift) ==
    [index |-> idx[keychain],
     next_index |-> IF shift THEN [idx EXCEPT ![keychain] = @ + 1] ELSE idx]

\* fn after_construct_psbt(&mut self, _psbt, _meta): the default does nothing
after_construct_psbt(w, p, meta) == w

(* --------------------- construct_psbt, step by step -------------------- *)

\* entry: Psbt::create(PsbtVer::V2), locktime, xpubs
Call(p) ==
    /\ pc \in {"idle", "done"}
    /\ UNCHANGED parsing
    /\ calls < MaxCalls
    /\ pc' = "inputs"
    /\ params' = p
    /\ coins' = <<>>
    /\ coins_end' = FALSE
    /\ beneficiaries' = <<>>
    /\ beneficiaries_end' = FALSE
    /\ psbt' = create
    /\ input_value' = 0
    /\ output_value' = 0
    /\ max' = <<>>
    /\ remaining_value' = 0
    /\ change' = None
    /\ result' = None
    /\ calls' = calls + 1
    /\ ndi_calls' = 0
    /\ ndi_args' = None
    /\ index_before' = next_index
    /\ hook_calls' = 0
    /\ hook_arg' = None
    /\ UNCHANGED <<next_index, total_ndi, total_change>>

\* the lookups of a coin with the prev_tx lookup left out
ResolveCoinUtxoOnly(coin) ==
    IF utxo(coin).kind = "None" THEN Err(UnknownInput(coin))
    ELSE Ok(utxo(coin).value)

\* the two lookups of a coin
ResolveCoin(coin) ==
    IF prev_tx(coin.txid).kind = "None" THEN Err(UnknownInput(coin))
    ELSE IF utxo(coin).kind = "None" THEN Err(UnknownInput(coin))
    ELSE Ok(utxo(coin).value)

\* the de-duplication test never finding the outpoint
NeverAlreadyInput(p, u) == FALSE

\* psbt.inputs().any(|inp| inp.previous_outpoint == utxo.outpoint)
AlreadyInput(p, u) ==
    \E i \in 1..Len(p.inputs) : p.inputs[i].previous_outpoint = u.outpoint

\* one iteration of `for coin in coins`
AddInput(coin) ==
    /\ pc = "inputs"
    /\ UNCHANGED parsing
    /\ Len(coins) < MaxCoins
    /\ coins' = Append(coins, coin)
    /\ LET r == ResolveCoin(coin) IN
        IF r.kind = "Err"
        THEN /\ result' = r
             /\ pc' = "done"
             /\ UNCHANGED psbt
        ELSE /\ psbt' = IF AlreadyInput(psbt, r.value) THEN psbt
                        ELSE append_input_expect(psbt, r.value)
             /\ UNCHANGED <<pc, result>>
    /\ UNCHANGED <<params, coins_end, beneficiaries, beneficiaries_end, locals, wallet,
                   calls, index_before, hook, total_change>>

\* the emptiness test left out
NeverNoInputs(p) == FALSE

\* psbt.inputs().count() == 0
HasNoInputs(p) == Len(p.inputs) = 0

\* the coins iterator is exhausted: the NoInputs check, then input_sum
EndInputs ==
    /\ pc = "inputs"
    /\ UNCHANGED parsing
    /\ coins_end' = TRUE
    /\ IF HasNoInputs(psbt)
       THEN /\ result' = Err(NoInputs)
            /\ pc' = "done"
            /\ UNCHANGED <<input_value, output_value, max>>
       ELSE /\ input_value' = input_sum(psbt)
            /\ max' = <<>>
            /\ output_value' = 0
            /\ pc' = "outputs"
            /\ UNCHANGED result
    /\ UNCHANGED <<params, coins, beneficiaries, beneficiaries_end, psbt, remaining_value,
                   change, wallet, calls, index_before, hook, total_change>>

\* the network test left out
NetworkNeverDiffers(beneficiary) == FALSE

\* beneficiary.address.network != self.network().into()
NetworkDiffers(beneficiary) == beneficiary.address.network # network

\* the accumulation done with wrapping addition
AccumulateOutputWrapping(ov, amount) == Ok((ov + amount) % (SatsCeiling + 1))

\* output_value.checked_add_assign(amount).ok_or(Overflow(output_value))?: the
\* error is built after the call, from output_value as the call left it
AccumulateOutput(ov, amount) ==
    LET r == checked_add_assign(ov, amount) IN
    IF r.ret.kind = "None" THEN Err(Overflow(r.self)) ELSE Ok(r.self)

\* an iteration that adds the amount before it tests the network
AddOutputSumFirst(beneficiary) ==
    /\ pc = "outputs"
    /\ UNCHANGED parsing
    /\ Len(beneficiaries) < MaxBens
    /\ beneficiaries' = Append(beneficiaries, beneficiary)
    /\ LET amount == unwrap_or(beneficiary.amount, 0)
           acc == AccumulateOutput(output_value, amount)
       IN  IF acc.kind = "Err"
           THEN /\ result' = acc
                /\ pc' = "done"
                /\ UNCHANGED <<psbt, output_value, max>>
           ELSE IF NetworkDiffers(beneficiary)
           THEN /\ result' = Err(NetworkMismatch(beneficiary.address))
                /\ pc' = "done"
                /\ UNCHANGED <<psbt, output_value, max>>
           ELSE /\ output_value' = acc.value
                /\ psbt' = append_output_expect(psbt, script_pubkey(beneficiary.address),
                                                amount)
                /\ max' = IF is_max(beneficiary.amount)
                          THEN Append(max, Len(psbt.outputs))
                          ELSE max
                /\ UNCHANGED <<pc, result>>
    /\ UNCHANGED <<params, coins, coins_end, beneficiaries_end, input_value,
                   remaining_value, change, wallet, calls, index_before, hook, total_change>>

\* one iteration of `for beneficiary in beneficiaries`
AddOutput(beneficiary) ==
    /\ pc = "outputs"
    /\ UNCHANGED parsing
    /\ Len(beneficiaries) < MaxBens
    /\ beneficiaries' = Append(beneficiaries, beneficiary)
    /\ IF NetworkDiffers(beneficiary)
       THEN /\ result' = Err(NetworkMismatch(beneficiary.address))
            /\ pc' = "done"
            /\ UNCHANGED <<psbt, output_value, max>>
       ELSE LET amount == unwrap_or(beneficiary.amount, 0)
                acc == AccumulateOutput(output_value, amount)
            IN  IF acc.kind = "Err"
                THEN /\ result' = acc
                     /\ pc' = "done"
                     /\ UNCHANGED <<psbt, output_value, max>>
                ELSE /\ output_value' = acc.value
                     /\ psbt' = append_output_expect(psbt, script_pubkey(beneficiary.address),
                                                     amount)
                     /\ max' = IF is_max(beneficiary.amount)
                               THEN Append(max, Len(psbt.outputs))
                               ELSE max
                     /\ UNCHANGED <<pc, result>>
    /\ UNCHANGED <<params, coins, coins_end, beneficiaries_end, input_value,
                   remaining_value, change, wallet, calls, index_before, hook, total_change>>

\* the two subtractions in the other order: the fee first, then the outputs
RemainingFeeFirst(iv, ov, fee) ==
    LET a == checked_sub(iv, fee) IN
    IF a.kind = "None" THEN Err(NoFundsForFee(iv, ov, fee))
    ELSE LET b == checked_sub(a.value, ov) IN
         IF b.kind = "None" THEN Err(OutputExceedsInputs(iv, ov))
         ELSE Ok(b.value)

\* the fee tested but not taken off the residual
RemainingFeeKept(iv, ov, fee) ==
    LET a == checked_sub(iv, ov) IN
    IF a.kind = "None" THEN Err(OutputExceedsInputs(iv, ov))
    ELSE LET b == checked_sub(a.value, fee) IN
         IF b.kind = "None" THEN Err(NoFundsForFee(iv, ov, fee))
         ELSE Ok(a.value)

\* input_value.checked_sub(output_value).ok_or(..)?.checked_sub(params.fee).ok_or(..)?
Remaining(iv, ov, fee) ==
    LET a == checked_sub(iv, ov) IN
    IF a.kind = "None" THEN Err(OutputExceedsInputs(iv, ov))
    ELSE LET b == checked_sub(a.value, fee) IN
         IF b.kind = "None" THEN Err(NoFundsForFee(iv, ov, fee))
         ELSE Ok(b.value)

\* the share rounded up instead of down
PortionRoundedUp(remaining, n) == (remaining + n - 1) \div n

\* remaining_value / max.len()
Portion(remaining, n) == remaining \div n

\* a share at or below the dust limit not written to the Max outputs
SetMaxAmountsAboveDust(p, m, portion) ==
    IF portion <= dust_limit THEN p
    ELSE [p EXCEPT !.outputs =
            [i \in 1..Len(@) |->
                IF \E j \in 1..Len(m) : m[j] = i - 1
                THEN [@[i] EXCEPT !.amount = portion]
                ELSE @[i]]]

\* the share written to every output, the max.contains test left out
SetMaxAmountsAll(p, m, portion) ==
    [p EXCEPT !.outputs = [i \in 1..Len(@) |-> [@[i] EXCEPT !.amount = portion]]]

\* for out in psbt.outputs_mut() { if max.contains(&out.index()) { out.amount = portion } }
SetMaxAmounts(p, m, portion) ==
    [p EXCEPT !.outputs =
        [i \in 1..Len(@) |->
            IF \E j \in 1..Len(m) : m[j] = i - 1
            THEN [@[i] EXCEPT !.amount = portion]
            ELSE @[i]]]

\* the change index allocated before the residual is computed
EndOutputsAllocatingFirst ==
    /\ pc = "outputs"
    /\ UNCHANGED parsing
    /\ beneficiaries_end' = TRUE
    /\ next_index' = next_derivation_index(next_index, params.change_keychain,
                                           params.change_shift).next_index
    /\ LET r == Remaining(input_value, output_value, params.fee) IN
        IF r.kind = "Err"
        THEN /\ result' = r
             /\ pc' = "done"
             /\ UNCHANGED <<psbt, remaining_value>>
        ELSE /\ IF max # <<>>
                THEN /\ psbt' = SetMaxAmounts(psbt, max, Portion(r.value, Len(max)))
                     /\ remaining_value' = 0
                ELSE /\ remaining_value' = r.value
                     /\ UNCHANGED psbt
             /\ pc' = "change"
             /\ UNCHANGED result
    /\ UNCHANGED <<params, coins, coins_end, beneficiaries, input_value, output_value, max,
                   change, ndi_calls, ndi_args, total_ndi, calls, index_before, hook,
                   total_change>>

\* the beneficiaries iterator is exhausted: the residual and the Max shares
EndOutputs ==
    /\ pc = "outputs"
    /\ UNCHANGED parsing
    /\ beneficiaries_end' = TRUE
    /\ LET r == Remaining(input_value, output_value, params.fee) IN
        IF r.kind = "Err"
        THEN /\ result' = r
             /\ pc' = "done"
             /\ UNCHANGED <<psbt, remaining_value>>
        ELSE /\ IF max # <<>>
                THEN /\ psbt' = SetMaxAmounts(psbt, max, Portion(r.value, Len(max)))
                     /\ remaining_value' = 0
                ELSE /\ remaining_value' = r.value
                     /\ UNCHANGED psbt
             /\ pc' = "change"
             /\ UNCHANGED result
    /\ UNCHANGED <<params, coins, coins_end, beneficiaries, input_value, output_value, max,
                   change, wallet, calls, index_before, hook, total_change>>

\* the dust test left out
AlwaysExceedsDust(remaining) == TRUE

\* the dust test with >= for >
AtLeastDust(remaining) == remaining >= dust_limit

\* remaining_value > self.descriptor().class().dust_limit()
ExceedsDust(remaining) == remaining > dust_limit

\* the change index allocated before the dust test instead of inside it
AddChangeAlwaysAllocating ==
    /\ pc = "change"
    /\ UNCHANGED parsing
    /\ LET n == next_derivation_index(next_index, params.change_keychain,
                                      params.change_shift)
           change_terminal == [keychain |-> params.change_keychain, index |-> n.index]
       IN  /\ next_index' = n.next_index
           /\ ndi_calls' = ndi_calls + 1
           /\ ndi_args' = Some([keychain |-> params.change_keychain,
                                shift |-> params.change_shift,
                                index |-> n.index])
           /\ total_ndi' = total_ndi + 1
           /\ IF ExceedsDust(remaining_value)
              THEN /\ psbt' = append_change_expect(psbt, change_terminal, remaining_value)
                   /\ change' = Some([vout |-> Len(psbt.outputs),
                                      terminal |-> change_terminal])
              ELSE /\ change' = None
                   /\ UNCHANGED psbt
    /\ pc' = "finalize"
    /\ UNCHANGED <<params, coins, coins_end, beneficiaries, beneficiaries_end, input_value,
                   output_value, max, remaining_value, result, calls, index_before, hook,
                   total_change>>

\* 3. Add change - only if exceeded the dust limit
AddChange ==
    /\ pc = "change"
    /\ UNCHANGED parsing
    /\ IF ExceedsDust(remaining_value)
       THEN LET n == next_derivation_index(next_index, params.change_keychain,
                                           params.change_shift)
                change_terminal == [keychain |-> params.change_keychain, index |-> n.index]
            IN  /\ next_index' = n.next_index
                /\ ndi_calls' = ndi_calls + 1
                /\ ndi_args' = Some([keychain |-> params.change_keychain,
                                     shift |-> params.change_shift,
                                     index |-> n.index])
                /\ total_ndi' = total_ndi + 1
                /\ psbt' = append_change_expect(psbt, change_terminal, remaining_value)
                /\ change' = Some([vout |-> Len(psbt.outputs), terminal |-> change_terminal])
       ELSE /\ change' = None
            /\ UNCHANGED <<psbt, wallet>>
    /\ pc' = "finalize"
    /\ UNCHANGED <<params, coins, coins_end, beneficiaries, beneficiaries_end, input_value,
                   output_value, max, remaining_value, result, calls, index_before, hook,
                   total_change>>

\* the metadata reporting what was left over as the fee
PsbtMetaFeeLeft ==
    [network |-> network, fee |-> remaining_value, weight |-> 0, size |-> 0,
     change |-> change]

\* PsbtMeta { network, fee, weight, size, change }
PsbtMeta ==
    [network |-> network, fee |-> params.fee, weight |-> 0, size |-> 0, change |-> change]

\* the hook handed the metadata as it was before the change was recorded
FinalizeStaleHook ==
    /\ pc = "finalize"
    /\ UNCHANGED parsing
    /\ next_index' = after_construct_psbt(next_index, psbt, PsbtMeta)
    /\ hook_calls' = hook_calls + 1
    /\ hook_arg' = Some([psbt |-> psbt, meta |-> [PsbtMeta EXCEPT !.change = None]])
    /\ result' = Ok([psbt |-> psbt, meta |-> PsbtMeta])
    /\ total_change' = IF change.kind = "Some" THEN total_change + 1 ELSE total_change
    /\ pc' = "done"
    /\ UNCHANGED <<params, coins, coins_end, beneficiaries, beneficiaries_end, psbt, locals,
                   calls, ndi_calls, ndi_args, index_before, total_ndi>>

\* the metadata, the hook, and the return
Finalize ==
    /\ pc = "finalize"
    /\ UNCHANGED parsing
    /\ next_index' = after_construct_psbt(next_index, psbt, PsbtMeta)
    /\ hook_calls' = hook_calls + 1
    /\ hook_arg' = Some([psbt |-> psbt, meta |-> PsbtMeta])
    /\ result' = Ok([psbt |-> psbt, meta |-> PsbtMeta])
    /\ total_change' = IF change.kind = "Some" THEN total_change + 1 ELSE total_change
    /\ pc' = "done"
    /\ UNCHANGED <<params, coins, coins_end, beneficiaries, beneficiaries_end, psbt, locals,
                   calls, ndi_calls, ndi_args, index_before, total_ndi>>

(***************************************************************************)
(* Beneficiary text parsing.  A text is a sequence of characters; Sats is  *)
(* an unsigned integer no larger than SatsCeiling.                         *)
(***************************************************************************)
Chars == {"@", "M", "A", "X", "0", "1", "b"}

Texts == UNION { [1..n -> Chars] : n \in 0..MaxText }

Digits == {"0", "1"}

DigitValue == [c \in Digits |-> IF c = "0" THEN 0 ELSE 1]

AddressChars == {"b", "1"}

\* ParseIntError
Empty == [kind |-> "Empty"]
InvalidDigit == [kind |-> "InvalidDigit"]
PosOverflow == [kind |-> "PosOverflow"]

AddressParseError == [kind |-> "AddressParseError"]

\* BeneficiaryParseError
InvalidFormat == [kind |-> "InvalidFormat"]
\* the Int variant (Int itself names the integers here)
Int_(e) == [kind |-> "Int", source |-> e]
Address(e) == [kind |-> "Address", source |-> e]

\* str::split_once: the halves around the first occurrence of the delimiter
split_once(s, delimiter) ==
    IF \A i \in 1..Len(s) : s[i] # delimiter
    THEN None
    ELSE LET at == CHOOSE i \in 1..Len(s) :
                       /\ s[i] = delimiter
                       /\ \A j \in 1..(i - 1) : s[j] # delimiter
         IN  Some(<<SubSeq(s, 1, at - 1), SubSeq(s, at + 1, Len(s))>>)

\* digits are accumulated left to right, failing on the first bad one
RECURSIVE from_str_radix_10(_, _)
from_str_radix_10(s, acc) ==
    IF s = <<>> THEN Ok(acc)
    ELSE IF s[1] \notin Digits THEN Err(InvalidDigit)
    ELSE IF acc * 10 + DigitValue[s[1]] > SatsCeiling THEN Err(PosOverflow)
    ELSE from_str_radix_10(Tail(s), acc * 10 + DigitValue[s[1]])

Sats_from_str(s) == IF s = <<>> THEN Err(Empty) ELSE from_str_radix_10(s, 0)

Address_from_str(s) ==
    IF s # <<>> /\ \A i \in 1..Len(s) : s[i] \in AddressChars
    THEN Ok([network |-> "bitcoin", payload |-> s])
    ELSE Err(AddressParseError)

Payment_from_str(s) ==
    IF s = <<"M", "A", "X">>
    THEN Ok(Max)
    ELSE LET n == Sats_from_str(s)
         IN  IF n.kind = "Ok" THEN Ok(Fixed(n.value)) ELSE n

Beneficiary_new(address, amount) == [address |-> address, amount |-> amount]

\* as Beneficiary_from_str, but the amount half is parsed before the address
Beneficiary_from_str_amount_first(s) ==
    LET halves == split_once(s, "@")
    IN  IF halves = None THEN Err(InvalidFormat)
        ELSE LET amount == Payment_from_str(halves.value[1])
                 address == Address_from_str(halves.value[2])
             IN  IF amount.kind = "Err" THEN Err(Int_(amount.error))
                 ELSE IF address.kind = "Err" THEN Err(Address(address.error))
                 ELSE Ok(Beneficiary_new(address.value, amount.value))

Beneficiary_from_str(s) ==
    LET halves == split_once(s, "@")
    IN  IF halves = None THEN Err(InvalidFormat)
        ELSE LET amount == halves.value[1]
                 beneficiary == halves.value[2]
                 address == Address_from_str(beneficiary)
             IN  IF address.kind = "Err" THEN Err(Address(address.error))
                 ELSE LET payment == Payment_from_str(amount)
                      IN  IF payment.kind = "Err" THEN Err(Int_(payment.error))
                          ELSE Ok(Beneficiary_new(address.value, payment.value))

\* some text is about to be parsed
ParseInit ==
    /\ Idle
    /\ text \in Texts
    /\ parsed = None

FromStr ==
    /\ parsed = None
    /\ parsed' = Beneficiary_from_str(text)
    /\ UNCHANGED <<text, construction>>

ParseNext == FromStr

SpecParse == ParseInit /\ [][ParseNext]_vars


Next ==
    \/ \E p \in TxParamsSet : Call(p)
    \/ \E coin \in Outpoints : AddInput(coin)
    \/ EndInputs
    \/ \E beneficiary \in Beneficiaries : AddOutput(beneficiary)
    \/ EndOutputs
    \/ AddChange
    \/ Finalize

Spec == Init /\ [][Next]_vars

(* ----------------- what a call was given, and what is due --------------- *)

Front(s) == SubSeq(s, 1, Len(s) - 1)

\* the lists an iterator that was not run to its end may still have held:
\* nothing more, or one further item
Further(S) == {<<>>} \cup {<<x>> : x \in S}

\* the coin lists and beneficiary lists the finished call may have been given
SuppliedCoins ==
    IF coins_end THEN {coins} ELSE {coins \o r : r \in Further(Outpoints)}
SuppliedBens ==
    IF beneficiaries_end THEN {beneficiaries}
    ELSE {beneficiaries \o r : r \in Further(Beneficiaries)}

\* the wallet knows the previous transaction and the UTXO of the outpoint
Resolvable(c) == c.txid \in WalletTxs /\ c \in {u.outpoint : u \in WalletUtxos}
AllResolvable(cs) == \A i \in 1..Len(cs) : Resolvable(cs[i])
ValueOf(c) == (CHOOSE u \in WalletUtxos : u.outpoint = c).value

\* a list without its repetitions, in first-occurrence order
RECURSIVE Distinct(_)
Distinct(s) ==
    IF s = <<>> THEN <<>>
    ELSE LET d == Distinct(Front(s)) IN
         IF \E i \in 1..Len(d) : d[i] = s[Len(s)] THEN d ELSE Append(d, s[Len(s)])

RECURSIVE TotalValue(_)
TotalValue(cs) == IF cs = <<>> THEN 0 ELSE ValueOf(cs[1]) + TotalValue(Tail(cs))

\* the inputs' value a coin list is worth: each distinct outpoint once
InputsWorth(cs) == TotalValue(Distinct(cs))

IsMaxBen(b) == b.amount.tag = "Max"
FixedOf(b) == IF b.amount.tag = "Fixed" THEN b.amount.sats ELSE 0

\* the sum of the beneficiaries' amounts, Max counted as 0
RECURSIVE FixedSum(_)
FixedSum(bs) == IF bs = <<>> THEN 0 ELSE FixedOf(bs[1]) + FixedSum(Tail(bs))

NumMax(bs) == Cardinality({i \in 1..Len(bs) : IsMaxBen(bs[i])})

OnNetwork(b) == b.address.network = "bitcoin"
AllOnNetwork(bs) == \A i \in 1..Len(bs) : OnNetwork(bs[i])

\* the sum of a transaction's output amounts
RECURSIVE SumAmounts(_)
SumAmounts(s) == IF s = <<>> THEN 0 ELSE s[1].amount + SumAmounts(Tail(s))

Succeeded == pc = "done" /\ result.kind = "Ok"
FailedWith(k) == pc = "done" /\ result.kind = "Err" /\ result.error.kind = k

\* the residual of the finished call, from what it was given
Residual == InputsWorth(coins) - FixedSum(beneficiaries) - params.fee

\* output i of the returned transaction pays beneficiary i
PaysBeneficiary(tx, i, amount) ==
    /\ tx.outputs[i].script_pubkey = [addr |-> beneficiaries[i].address.payload]
    /\ tx.outputs[i].amount = amount

(* ------------------------------- claims -------------------------------- *)

\* the call's lists pass the input phase and the beneficiary loop
C1_Case ==
    /\ pc = "done"
    /\ coins # <<>>
    /\ AllResolvable(coins)
    /\ AllOnNetwork(beneficiaries)
    /\ FixedSum(beneficiaries) <= SatsCeiling

\* C1: insufficiency ordering. A finished call whose coins all resolve (at
\* least one), whose beneficiaries are all on the wallet's network and whose
\* amounts sum without overflow returns OutputExceedsInputs{input_value,
\* output_value} when the outputs exceed the inputs, NoFundsForFee{input_value,
\* output_value, fee} when the outputs fit and the fee does not, and neither
\* error in the other's situation.
C1_InsufficiencyOrdering ==
    C1_Case =>
        LET iv == InputsWorth(coins)
            ov == FixedSum(beneficiaries)
            fee == params.fee
        IN  /\ ov > iv => result = Err(OutputExceedsInputs(iv, ov))
            /\ (ov <= iv /\ iv - ov < fee) => result = Err(NoFundsForFee(iv, ov, fee))
            /\ FailedWith("OutputExceedsInputs") => ov > iv
            /\ FailedWith("NoFundsForFee") => (ov <= iv /\ iv - ov < fee)

\* a call that fits its outputs with something left, and still cannot pay the fee
C1_Witness ==
    /\ C1_Case
    /\ FailedWith("NoFundsForFee")
    /\ FixedSum(beneficiaries) > 0
    /\ FixedSum(beneficiaries) <= InputsWorth(coins)
    /\ Len(coins) > 1

\* C2: exact accounting with change. A successful call with no Max
\* beneficiary whose residual input_value - output_value - fee exceeds the dust
\* limit returns a transaction with one output per beneficiary, in order and
\* with its fixed amount, followed by exactly one change output of exactly the
\* residual; meta.change is Some, and the inputs sum to the outputs plus the fee.
C2_ExactAccounting ==
    (Succeeded /\ NumMax(beneficiaries) = 0 /\ Residual > DustLimit) =>
        LET tx == result.value.psbt
            meta == result.value.meta
            n == Len(beneficiaries)
        IN  /\ Len(tx.outputs) = n + 1
            /\ \A i \in 1..n : PaysBeneficiary(tx, i, FixedOf(beneficiaries[i]))
            /\ tx.outputs[n + 1].amount = Residual
            /\ "derived" \in DOMAIN tx.outputs[n + 1].script_pubkey
            /\ meta.change.kind = "Some"
            /\ SumValues(tx.inputs) = SumAmounts(tx.outputs) + params.fee

\* a call with a fee, a paid beneficiary and change above the dust limit
C2_Witness ==
    /\ Succeeded
    /\ NumMax(beneficiaries) = 0
    /\ Residual > DustLimit
    /\ params.fee > 0
    /\ FixedSum(beneficiaries) > 0

\* C3: dust absorption. A successful call with no Max beneficiary whose
\* residual is at or below the dust limit returns a transaction with exactly
\* one output per beneficiary, each with its fixed amount, no change output and
\* meta.change = None: the residual is paid to no output.
C3_DustAbsorption ==
    (Succeeded /\ NumMax(beneficiaries) = 0 /\ Residual <= DustLimit) =>
        LET tx == result.value.psbt
            meta == result.value.meta
            n == Len(beneficiaries)
        IN  /\ Len(tx.outputs) = n
            /\ \A i \in 1..n : PaysBeneficiary(tx, i, FixedOf(beneficiaries[i]))
            /\ meta.change = None
            /\ SumAmounts(tx.outputs) = FixedSum(beneficiaries)
            /\ SumValues(tx.inputs) - SumAmounts(tx.outputs) - params.fee = Residual

\* a call whose residual equals the dust limit exactly
C3_Witness ==
    /\ Succeeded
    /\ NumMax(beneficiaries) = 0
    /\ beneficiaries # <<>>
    /\ Residual = DustLimit

\* C4: Max distribution. A successful call with k >= 1 Max beneficiaries
\* pays every Max beneficiary floor(residual / k) and every Fixed beneficiary
\* its amount, with one output per beneficiary; the Max outputs together get
\* no more than the residual, and there is no change output whatever is left.
C4_MaxDistribution ==
    (Succeeded /\ NumMax(beneficiaries) >= 1) =>
        LET tx == result.value.psbt
            meta == result.value.meta
            n == Len(beneficiaries)
            k == NumMax(beneficiaries)
            share == Residual \div k
        IN  /\ Residual >= 0
            /\ Len(tx.outputs) = n
            /\ \A i \in 1..n :
                 PaysBeneficiary(tx, i, IF IsMaxBen(beneficiaries[i]) THEN share
                                        ELSE FixedOf(beneficiaries[i]))
            /\ SumAmounts(tx.outputs) - FixedSum(beneficiaries) = k * share
            /\ SumAmounts(tx.outputs) - FixedSum(beneficiaries) <= Residual
            /\ meta.change = None

\* two Max beneficiaries and a residual that does not divide evenly
C4_Witness ==
    /\ Succeeded
    /\ NumMax(beneficiaries) = 2
    /\ Residual % 2 = 1
    /\ Residual > DustLimit

\* the input phase of the call is over, and every coin given resolved
C5_Case ==
    /\ pc \in {"outputs", "change", "finalize", "done"}
    /\ coins # <<>>
    /\ AllResolvable(coins)

\* C5: dedup idempotence. When every coin of the list resolves, the inputs of
\* the draft (and of the transaction returned) are the distinct outpoints of the
\* list, each once, in first-occurrence order, and input_value counts the value
\* of each once.
C5_DedupIdempotence ==
    C5_Case =>
        /\ Len(psbt.inputs) = Len(Distinct(coins))
        /\ \A i \in 1..Len(psbt.inputs) :
             /\ psbt.inputs[i].previous_outpoint = Distinct(coins)[i]
             /\ psbt.inputs[i].value = ValueOf(Distinct(coins)[i])
        /\ input_value = InputsWorth(coins)
        /\ Succeeded => result.value.psbt.inputs = psbt.inputs

\* a successful call given the same outpoint more than once
C5_Witness ==
    /\ Succeeded
    /\ Len(coins) > Len(result.value.psbt.inputs)

\* the position of the first coin that does not resolve, and of the first
\* beneficiary of another network, in a list that holds one
FirstCoinNot(cs) ==
    CHOOSE i \in 1..Len(cs) :
        ~Resolvable(cs[i]) /\ \A j \in 1..(i - 1) : Resolvable(cs[j])
FirstForeign(bs) ==
    CHOOSE i \in 1..Len(bs) :
        ~OnNetwork(bs[i]) /\ \A j \in 1..(i - 1) : OnNetwork(bs[j])

\* C6: unknown-coin rejection. A finished call whose coin list holds an
\* outpoint for which prev_tx or utxo returns none has returned UnknownInput
\* with the first such outpoint of the list, whatever the beneficiaries and the
\* parameters, and no transaction; it has examined no beneficiary.
C6_UnknownCoinRejection ==
    pc = "done" =>
        \A cs \in SuppliedCoins :
            ~AllResolvable(cs) =>
                /\ result = Err(UnknownInput(cs[FirstCoinNot(cs)]))
                /\ beneficiaries = <<>>

\* a call that took a good coin and then the coin whose previous transaction
\* the wallet lacks
C6_Witness ==
    /\ FailedWith("UnknownInput")
    /\ Len(coins) = 2
    /\ Resolvable(coins[1])
    /\ coins[2].txid \notin WalletTxs
    /\ params.fee > 0

\* C7: empty-input rejection, empty list. A finished call given an empty
\* coin list has returned NoInputs, for every TxParams, and has taken no
\* beneficiary from its list.
C7_EmptyCoinList ==
    (pc = "done" /\ coins_end /\ coins = <<>>) =>
        /\ result = Err(NoInputs)
        /\ beneficiaries = <<>>
        /\ ~beneficiaries_end

\* a second call, with a fee, given no coins
C7_Witness ==
    /\ FailedWith("NoInputs")
    /\ coins = <<>>
    /\ params.fee > 0
    /\ calls = 2

\* the claim C8 as written: a non-empty coin list in which every lookup fails
\* makes construct_psbt return NoInputs
C8_AsWritten ==
    pc = "done" =>
        \A cs \in SuppliedCoins :
            (cs # <<>> /\ \A i \in 1..Len(cs) : ~Resolvable(cs[i])) =>
                result = Err(NoInputs)

\* C8, amended: a finished call given a non-empty coin list in which every
\* outpoint's lookup fails has returned UnknownInput with the first outpoint of
\* the list; NoInputs is returned only for an empty coin list.
C8_AllLookupsFail ==
    pc = "done" =>
        /\ \A cs \in SuppliedCoins :
            (cs # <<>> /\ \A i \in 1..Len(cs) : ~Resolvable(cs[i])) =>
                result = Err(UnknownInput(cs[1]))
        /\ FailedWith("NoInputs") => (coins_end /\ coins = <<>>)

\* a call whose first coin is the one the wallet records as UTXO without
\* having its previous transaction
C8_Witness ==
    /\ FailedWith("UnknownInput")
    /\ Len(coins) = 1
    /\ coins[1].txid \notin WalletTxs
    /\ result.error.outpoint = coins[1]

\* the claim C9 as written: with at least one input resolved, a beneficiary
\* on another network makes construct_psbt return NetworkMismatch with the
\* first such address, whatever the amounts
C9_AsWritten ==
    (pc = "done" /\ coins # <<>> /\ AllResolvable(coins)) =>
        \A bs \in SuppliedBens :
            ~AllOnNetwork(bs) =>
                result = Err(NetworkMismatch(bs[FirstForeign(bs)].address))

\* C9, amended: a finished call whose coins all resolve (at least one) and
\* whose beneficiary list holds an address of another network has returned
\* NetworkMismatch with the first such address, even if all other beneficiaries
\* are on the wallet's network, provided the amounts of the beneficiaries before
\* it (Max counted as 0) sum without overflow.
C9_NetworkCheck ==
    (pc = "done" /\ coins # <<>> /\ AllResolvable(coins)) =>
        \A bs \in SuppliedBens :
            (/\ ~AllOnNetwork(bs)
             /\ FixedSum(SubSeq(bs, 1, FirstForeign(bs) - 1)) <= SatsCeiling) =>
                result = Err(NetworkMismatch(bs[FirstForeign(bs)].address))

\* a call that took a beneficiary of the wallet's network and then one of
\* another network
C9_Witness ==
    /\ FailedWith("NetworkMismatch")
    /\ Len(beneficiaries) = 2
    /\ OnNetwork(beneficiaries[1])
    /\ FixedOf(beneficiaries[1]) > InputsWorth(coins)
    /\ result.error.address = beneficiaries[2].address

\* the output loop has reached a beneficiary of the wallet's network whose
\* amount does not fit on the running sum
C10_Case ==
    /\ coins # <<>>
    /\ AllResolvable(coins)
    /\ coins_end
    /\ beneficiaries # <<>>
    /\ AllOnNetwork(beneficiaries)
    /\ FixedSum(Front(beneficiaries)) <= SatsCeiling
    /\ FixedSum(beneficiaries) > SatsCeiling

C11_FailureKeepsIndex ==
    /\ (pc = "done" /\ result.kind = "Err") =>
          (ndi_calls = 0 /\ ndi_args = None /\ next_index = index_before)
    /\ pc \in {"inputs", "outputs", "change"} =>
          (ndi_calls = 0 /\ next_index = index_before)

\* a call with change_shift set that fails for want of fee, on a wallet whose
\* counter an earlier call has moved
C11_Witness ==
    /\ FailedWith("NoFundsForFee")
    /\ params.change_shift
    /\ index_before[params.change_keychain] > 0

\* C12: hook ordering. after_construct_psbt has run exactly once in a call
\* that returned Ok and not at all in a call that returned an error or is still
\* running; it ran as the last step, on the draft with all its inputs, outputs
\* and change output and after any next_derivation_index call, and it was
\* handed the transaction and metadata that the call returned.
C12_HookOrdering ==
    /\ hook_calls \in {0, 1}
    /\ (hook_calls = 1) <=> Succeeded
    /\ (pc = "done" /\ result.kind = "Err") => (hook_calls = 0 /\ hook_arg = None)
    /\ Succeeded =>
          /\ hook_arg = Some(result.value)
          /\ hook_arg.value.psbt = psbt
          /\ hook_arg.value.meta.change = change
          /\ Len(psbt.inputs) = Len(Distinct(coins))
          /\ Len(psbt.outputs) = Len(beneficiaries) + (IF change.kind = "Some" THEN 1 ELSE 0)
          /\ change.kind = "Some" => ndi_calls = 1

\* a second call that returned a transaction with change
C12_Witness ==
    /\ Succeeded
    /\ hook_calls = 1
    /\ result.value.meta.change.kind = "Some"
    /\ beneficiaries # <<>>
    /\ calls = 2

\* C13: index allocation count. A call makes at most one
\* next_derivation_index call; a finished call has made exactly one, with
\* (params.change_keychain, params.change_shift), if and only if it returned a
\* change output, and none when a Max beneficiary is present or the residual is
\* at or below the dust limit. Between calls, the number of
\* next_derivation_index calls made so far equals the number of results
\* returned with meta.change = Some.
C13_IndexAllocationCount ==
    /\ ndi_calls \in {0, 1}
    /\ pc = "done" =>
          (ndi_calls = 1) <=> (Succeeded /\ result.value.meta.change.kind = "Some")
    /\ ndi_calls = 1 =>
          /\ ndi_args.kind = "Some"
          /\ ndi_args.value.keychain = params.change_keychain
          /\ ndi_args.value.shift = params.change_shift
    /\ (Succeeded /\ (NumMax(beneficiaries) >= 1 \/ Residual <= DustLimit)) => ndi_calls = 0
    /\ pc \in {"idle", "done"} => total_ndi = total_change

\* two calls that each returned change, the second after a call that moved
\* the counter
C13_Witness ==
    /\ Succeeded
    /\ calls = 2
    /\ total_ndi = 2
    /\ total_change = 2
    /\ index_before[params.change_keychain] > 0

\* what the returned transaction pays in fee: its inputs less its outputs
FeePaid(tx) == SumValues(tx.inputs) - SumAmounts(tx.outputs)

\* the part of the residual a successful call gives to no output
Absorbed ==
    IF NumMax(beneficiaries) >= 1 THEN Residual % NumMax(beneficiaries)
    ELSE IF Residual > DustLimit THEN 0
    ELSE Residual

\* the claim C14 as written: meta.fee is the sum of the returned
\* transaction's input values less the sum of its output amounts
C14_AsWritten ==
    Succeeded => result.value.meta.fee = FeePaid(result.value.psbt)

\* C14, amended: for every successful call meta.fee equals params.fee, which
\* is at most the inputs less the outputs of the returned transaction; the two
\* are equal when a change output is created, and otherwise differ by the
\* residual absorbed (a residual at or below the dust limit, or the remainder of
\* the division among the Max beneficiaries).
C14_MetaFee ==
    Succeeded =>
        LET tx == result.value.psbt
            meta == result.value.meta
        IN  /\ meta.fee = params.fee
            /\ meta.fee <= FeePaid(tx)
            /\ meta.change.kind = "Some" => FeePaid(tx) = meta.fee
            /\ FeePaid(tx) - meta.fee = Absorbed

\* a call with a fee that succeeds and absorbs a residual equal to the dust limit
C14_Witness ==
    /\ Succeeded
    /\ params.fee > 0
    /\ NumMax(beneficiaries) = 0
    /\ Residual = DustLimit
    /\ FeePaid(result.value.psbt) > result.value.meta.fee

\* the ChangeInfo due to the finished call: none with a Max beneficiary or a
\* residual within the dust limit, else the output after the beneficiaries' at
\* the index the wallet had next on the change keychain
ChangeDue ==
    IF NumMax(beneficiaries) = 0 /\ Residual > DustLimit
    THEN [kind |-> "Some",
          value |-> [vout |-> Len(beneficiaries),
                     terminal |-> [keychain |-> params.change_keychain,
                                   index |-> index_before[params.change_keychain]]]]
    ELSE [kind |-> "None"]

\* C15: finalize metadata. The PsbtMeta of every successful call has fee =
\* params.fee, the wallet's network, weight and size 0, and as change the
\* ChangeInfo of the change output when one was created and None otherwise.
C15_FinalizeMetadata ==
    Succeeded =>
        /\ result.value.meta =
              [network |-> "bitcoin", fee |-> params.fee, weight |-> 0, size |-> 0,
               change |-> ChangeDue]
        /\ (result.value.meta.change.kind = "Some") <=>
              (Len(result.value.psbt.outputs) = Len(beneficiaries) + 1)

\* a successful second call with a fee and change, on a moved counter
C15_Witness ==
    /\ Succeeded
    /\ params.fee > 0
    /\ result.value.meta.change.kind = "Some"
    /\ result.value.meta.change.value.terminal.index > 0

\* C16: ChangeInfo validity. Whenever a call returns meta.change =
\* Some(ChangeInfo{vout, terminal}), vout is the index of the last output of the
\* returned transaction, which equals the number of beneficiaries; that output
\* pays to the terminal, its amount is strictly greater than the dust limit, and
\* terminal is (params.change_keychain, the index next_derivation_index returned).
C16_ChangeInfoValidity ==
    (Succeeded /\ result.value.meta.change.kind = "Some") =>
        LET tx == result.value.psbt
            info == result.value.meta.change.value
        IN  /\ info.vout = Len(beneficiaries)
            /\ info.vout + 1 = Len(tx.outputs)
            /\ tx.outputs[info.vout + 1].amount > DustLimit
            /\ tx.outputs[info.vout + 1].script_pubkey = [derived |-> info.terminal]
            /\ ndi_args.kind = "Some"
            /\ info.terminal = [keychain |-> params.change_keychain,
                                index |-> ndi_args.value.index]

\* a change output after two beneficiaries, on the other keychain
C16_Witness ==
    /\ Succeeded
    /\ result.value.meta.change.kind = "Some"
    /\ result.value.meta.change.value.vout = 2
    /\ result.value.meta.change.value.terminal.keychain = 1

\* C18: value conservation. Every transaction returned satisfies
\* sum(outputs) + params.fee <= sum(inputs); the surplus sum(inputs) -
\* sum(outputs) - params.fee is 0 when a change output exists, at most the dust
\* limit when there is neither a Max beneficiary nor change, and less than the
\* number of Max beneficiaries when there are some.
C18_ValueConservation ==
    Succeeded =>
        LET tx == result.value.psbt
            surplus == SumValues(tx.inputs) - SumAmounts(tx.outputs) - params.fee
            k == NumMax(beneficiaries)
        IN  /\ SumAmounts(tx.outputs) + params.fee <= SumValues(tx.inputs)
            /\ SumValues(tx.inputs) = InputsWorth(coins)
            /\ result.value.meta.change.kind = "Some" => surplus = 0
            /\ (k = 0 /\ result.value.meta.change.kind = "None") => surplus <= DustLimit
            /\ k >= 1 => surplus < k

\* a transaction with a Fixed and a Max beneficiary that pays a fee
C18_Witness ==
    /\ Succeeded
    /\ params.fee > 0
    /\ NumMax(beneficiaries) = 1
    /\ FixedSum(beneficiaries) > 0
    /\ Residual > 0

\* beneficiary i is the one the output loop stops at: it is of another
\* network, or its amount does not fit on the sum of those before it
BenStops(bs, i) ==
    \/ ~OnNetwork(bs[i])
    \/ FixedSum(SubSeq(bs, 1, i)) > SatsCeiling
FirstBenStopping(bs) ==
    CHOOSE i \in 1..Len(bs) : BenStops(bs, i) /\ \A j \in 1..(i - 1) : ~BenStops(bs, j)

\* the outcome due to a call given the coins cs, the beneficiaries bs and the
\* fee: the error of the first check that fails, the checks taken in the order
\* coins, emptiness, beneficiaries (network before sum), outputs, fee
Due(cs, bs, fee) ==
    IF ~AllResolvable(cs) THEN Err(UnknownInput(cs[FirstCoinNot(cs)]))
    ELSE IF cs = <<>> THEN Err(NoInputs)
    ELSE IF \E i \in 1..Len(bs) : BenStops(bs, i)
    THEN LET i == FirstBenStopping(bs) IN
         IF ~OnNetwork(bs[i]) THEN Err(NetworkMismatch(bs[i].address))
         ELSE Err(Overflow(FixedSum(SubSeq(bs, 1, i - 1))))
    ELSE IF FixedSum(bs) > InputsWorth(cs)
    THEN Err(OutputExceedsInputs(InputsWorth(cs), FixedSum(bs)))
    ELSE IF InputsWorth(cs) - FixedSum(bs) < fee
    THEN Err(NoFundsForFee(InputsWorth(cs), FixedSum(bs), fee))
    ELSE [kind |-> "Ok"]

\* C19: error precedence. The error a finished call returned is that of the
\* first failing check in the order: per coin in list order UnknownInput; then
\* NoInputs; then per beneficiary in supplied order NetworkMismatch before
\* Overflow; then OutputExceedsInputs; then NoFundsForFee. A call returns Ok
\* only when no check fails.
C19_ErrorPrecedence ==
    pc = "done" =>
        \A cs \in SuppliedCoins, bs \in SuppliedBens :
            LET d == Due(cs, bs, params.fee) IN
            IF d.kind = "Err" THEN result = d ELSE result.kind = "Ok"

\* a second beneficiary that is of another network and whose amount would
\* also overflow the sum
C19_Witness ==
    /\ FailedWith("NetworkMismatch")
    /\ Len(beneficiaries) = 2
    /\ FixedSum(beneficiaries) > SatsCeiling

\* C20: no dust check on Max shares. A call that reaches the residual with
\* k >= 1 Max beneficiaries (coins resolved, beneficiaries on the wallet's
\* network, amounts summing without overflow) succeeds whenever input_value -
\* (sum of Fixed amounts) - fee >= 0, also when the share floor(residual / k) is
\* 0 or within the dust limit; every Max beneficiary keeps its output, with the
\* share as amount.
C20_NoDustCheckOnMax ==
    (C1_Case /\ NumMax(beneficiaries) >= 1 /\ Residual >= 0) =>
        /\ Succeeded
        /\ Len(result.value.psbt.outputs) = Len(beneficiaries)
        /\ \A i \in 1..Len(beneficiaries) :
             IsMaxBen(beneficiaries[i]) =>
                PaysBeneficiary(result.value.psbt, i, Residual \div NumMax(beneficiaries))

\* two Max beneficiaries sharing a residual equal to the dust limit: less
\* than one unit each
C20_Witness ==
    /\ Succeeded
    /\ NumMax(beneficiaries) = 2
    /\ Residual = DustLimit
    /\ result.value.psbt.outputs[1].amount * 2 <= DustLimit

(***************************************************************************)
(* Beneficiary text parsing                                                *)
(***************************************************************************)
HasSeparator(t) == \E i \in 1..Len(t) : t[i] = "@"

SeparatorAt(t) == CHOOSE i \in 1..Len(t) : t[i] = "@" /\ \A j \in 1..(i - 1) : t[j] # "@"

AmountHalf(t) == SubSeq(t, 1, SeparatorAt(t) - 1)

AddressHalf(t) == SubSeq(t, SeparatorAt(t) + 1, Len(t))

IsDecimal(t) == t # <<>> /\ \A i \in 1..Len(t) : t[i] \in {"0", "1"}

RECURSIVE Pow10(_)
Pow10(k) == IF k = 0 THEN 1 ELSE 10 * Pow10(k - 1)

RECURSIVE Number(_)
Number(t) ==
    IF t = <<>> THEN 0
    ELSE (IF t[1] = "1" THEN Pow10(Len(t) - 1) ELSE 0) + Number(Tail(t))

\* a decimal integer that Sats can hold
IsSats(t) == IsDecimal(t) /\ Number(t) <= SatsCeiling

IsMaxToken(t) == t = <<"M", "A", "X">>

AmountInvalid(t) == ~IsMaxToken(t) /\ ~IsSats(t)

AddressInvalid(t) == t = <<>> \/ \E i \in 1..Len(t) : t[i] \notin AddressChars

FailsWith(k) == parsed.kind = "Err" /\ parsed.error.kind = k

Yields(payment) ==
    /\ parsed.kind = "Ok"
    /\ parsed.value.amount = payment
    /\ parsed.value.address.payload = AddressHalf(text)

\* C17 as stated, each half judged without regard to the other: an invalid
\* amount half gives the integer-parse error and an invalid address half gives
\* the address-parse error.
C17_AsWritten ==
    parsed # None =>
        /\ ~HasSeparator(text) => parsed = Err(InvalidFormat)
        /\ HasSeparator(text) =>
              /\ AmountInvalid(AmountHalf(text)) => FailsWith("Int")
              /\ AddressInvalid(AddressHalf(text)) => FailsWith("Address")
              /\ (~AmountInvalid(AmountHalf(text)) /\ ~AddressInvalid(AddressHalf(text))) =>
                    /\ IsMaxToken(AmountHalf(text)) => Yields(Max)
                    /\ IsSats(AmountHalf(text)) => Yields(Fixed(Number(AmountHalf(text))))

\* C17: Beneficiary::from_str splits the text at the first '@'.  Text without
\* '@' fails with InvalidFormat.  Otherwise an invalid address half fails with
\* the address-parse error, whatever the amount half is; with a valid address
\* half, an amount half that is neither MAX nor a decimal integer that Sats can
\* hold fails with the integer-parse error, MAX yields Payment::Max and a
\* decimal integer n yields Payment::Fixed(n).  The error of the failing
\* sub-parser is carried in the returned error.
C17_BeneficiaryParsing ==
    parsed # None =>
        /\ ~HasSeparator(text) => parsed = Err(InvalidFormat)
        /\ HasSeparator(text) =>
              /\ AddressInvalid(AddressHalf(text)) =>
                    /\ FailsWith("Address")
                    /\ parsed.error.source = Address_from_str(AddressHalf(text)).error
              /\ (~AddressInvalid(AddressHalf(text)) /\ AmountInvalid(AmountHalf(text))) =>
                    /\ FailsWith("Int")
                    /\ parsed.error.source = Sats_from_str(AmountHalf(text)).error
              /\ (~AddressInvalid(AddressHalf(text)) /\ ~AmountInvalid(AmountHalf(text))) =>
                    /\ IsMaxToken(AmountHalf(text)) => Yields(Max)
                    /\ IsSats(AmountHalf(text)) => Yields(Fixed(Number(AmountHalf(text))))

\* a text whose two halves are both invalid has been parsed
C17_Witness ==
    /\ parsed # None
    /\ HasSeparator(text)
    /\ AmountInvalid(AmountHalf(text))
    /\ AddressInvalid(AddressHalf(text))
    /\ HasSeparator(AddressHalf(text))
    /\ FailsWith("Address")

====
